---- MODULE Spec2Model ----
(***************************************************************************)
(* Site scanner: the job lifecycle of app/tasks.py (scan_site and the job  *)
(* store helpers), the submission path of app/api.py and the bounded crawl *)
(* of app/crawler.py (SiteCrawler), as one state machine.                   *)
(*                                                                         *)
(* The calls the source guards or relies on (navigation, screenshot, page  *)
(* content, link extraction, opening a page, the two lookups, the store    *)
(* and the progress callback) have both outcomes: they return or raise.    *)
(***************************************************************************)
EXTENDS Integers, Sequences, FiniteSets, TLC

(***************************************************************************)
(* Bounds of the model.                                                    *)
(***************************************************************************)
\* largest max_pages a submission carries (the smallest is 0: ScanRequest
\* puts no lower limit on max_pages)
MaxPages == 3
\* wall-clock seconds a screenshot file name can be stamped with
MaxSecond == 1
\* largest number of visited pages, and of links found, the scores are
\* computed for (their terms saturate at 10 pages, 50 internal links and
\* 100 links)
MaxScorePages == 11
MaxScoreLinks == 101

(***************************************************************************)
(* Program constants.                                                      *)
(***************************************************************************)
\* range(3): navigation attempts on the seed page
SEED_ATTEMPTS == 3
\* range(2): navigation attempts on an internal page
PAGE_ATTEMPTS == 2
\* redis setex(..., 3600, ...): retention of every key, in seconds
TTL_SECONDS == 3600
\* task_time_limit = 30 * 60 seconds
TASK_TIME_LIMIT == 1800

\* job ids the submission path hands out (uuid4 values)
JobIds == {"j1", "j2"}

\* the seed URL of every job, and the URLs its pages can link to
SeedUrl == "seed"
Links == {"seed", "a", "b", "x"}

\* tldextract.extract(link).registered_domain
registered_domain(link) ==
    IF link = "x" THEN "other.org" ELSE "site.com"

\* Optional[...] values: None is the empty set, a value v is {v}
None == {}
Some(v) == {v}

Min(a, b) == IF a <= b THEN a ELSE b
Max(a, b) == IF a >= b THEN a ELSE b

VARIABLES
    pc,            \* per job: where its submission / scan_site run stands
    req,           \* per job: the ScanRequest it was submitted with
    scan,          \* store, key scan:<id>: the stored ScanResult or Missing
    crawler_data,  \* store, key crawler_data:<id>: the artifact entry or Missing
    worder,        \* the store's present keys, oldest last write first
    expired,       \* keys the store dropped because their TTL ran out
    crawler,       \* per job: the SiteCrawler object's fields
    cr,            \* per job: locals of crawl_site / _crawl_internal_pages
    crawl_results, \* per job: what crawl_site returned
    exc,           \* per job: str(e) of the exception the outer handler caught
    scan_data,     \* per job: what the outer handler read from the store
    ret,           \* per job: what scan_site returned to its caller
    navlog         \* per job: the page.goto calls of its crawl, in order

vars == <<pc, req, scan, crawler_data, worder, expired, crawler, cr,
          crawl_results, exc, scan_data, ret, navlog>>

(***************************************************************************)
(* app/models.py                                                           *)
(***************************************************************************)
ScanStatus == {"pending", "processing", "completed", "failed"}

\* ScanRequest: max_pages is Optional[int] with no lower limit, the two
\* flags are booleans
ScanRequest ==
    [max_pages : 0..MaxPages, include_screenshots : BOOLEAN, include_html : BOOLEAN]

\* ScanResult(scan_id=..., url=..., status=..., created_at=utcnow()) with
\* every other field at its default
ScanResult(scan_id, status) ==
    [scan_id |-> scan_id, url |-> SeedUrl, status |-> status,
     created_at |-> Some("utcnow"), completed_at |-> None,
     pages_crawled |-> 0, total_links |-> 0,
     external_links |-> 0, internal_links |-> 0,
     domain_info |-> None, ip_info |-> None,
     content_score |-> None, seo_score |-> None, performance_score |-> None,
     has_screenshot |-> FALSE, has_html_archive |-> FALSE,
     error_message |-> None]

(***************************************************************************)
(* The job store (redis db 1): two keys per job, each written with setex   *)
(* and the same TTL.                                                       *)
(***************************************************************************)
\* what a get returns for a key the store does not hold
Missing == [status |-> "missing"]

scan_key(j) == <<"scan", j>>
crawler_key(j) == <<"crawler_data", j>>

RECURSIVE Without(_, _)
Without(s, k) ==
    IF s = <<>> THEN <<>>
    ELSE IF Head(s) = k THEN Without(Tail(s), k)
    ELSE <<Head(s)>> \o Without(Tail(s), k)

\* setex: the key is (re)written now, so it is the last one to expire
Written(order, k) == Append(Without(order, k), k)

\* positions of a job whose scan_site run is under way, and those of a job
\* whose run has returned ("done") or let an exception out ("raised")
Running ==
    {"report_start", "store_processing", "init_crawler",
     "seed_goto", "screenshot", "seed_html", "seed_links", "select_pages",
     "loop", "page_goto", "page_visit", "page_close", "compile",
     "post_crawl", "store_result", "store_artifacts", "report_success",
     "handler_get", "handler_set"}
Exited == {"done", "raised"}

\* SiteCrawler.__init__
SiteCrawler(max_pages, include_screenshots, include_html) ==
    [max_pages |-> max_pages, include_screenshots |-> include_screenshots,
     include_html |-> include_html,
     crawled_urls |-> {}, all_links |-> {}, internal_links |-> {},
     external_links |-> {}, html_content |-> {}, screenshot_path |-> None]

\* locals of crawl_site and _crawl_internal_pages
CrawlLocals ==
    [attempt |-> 0, pages_to_crawl |-> <<>>, idx |-> 1, open_pages |-> {}]

Init ==
    /\ pc = [j \in JobIds |-> IF j = "j1" THEN "idle" ELSE "unused"]
    /\ req = [j \in JobIds |-> [max_pages |-> 10, include_screenshots |-> TRUE,
                                include_html |-> TRUE]]
    /\ scan = [j \in JobIds |-> Missing]
    /\ crawler_data = [j \in JobIds |-> Missing]
    /\ worder = <<>>
    /\ expired = {}
    /\ crawler = [j \in JobIds |-> SiteCrawler(10, TRUE, TRUE)]
    /\ cr = [j \in JobIds |-> CrawlLocals]
    /\ crawl_results = [j \in JobIds |-> None]
    /\ exc = [j \in JobIds |-> None]
    /\ scan_data = [j \in JobIds |-> Missing]
    /\ ret = [j \in JobIds |-> None]
    /\ navlog = [j \in JobIds |-> <<>>]

(***************************************************************************)
(* app/api.py: submission                                                  *)
(***************************************************************************)
\* create_scan: builds a Pending ScanResult in a local, dispatches scan_site
\* and answers with the id; the local is not stored
create_scan(j) ==
    /\ pc[j] = "idle"
    /\ \E r \in ScanRequest : req' = [req EXCEPT ![j] = r]
    /\ pc' = [pc EXCEPT ![j] = "report_start"]
    /\ UNCHANGED <<scan, crawler_data, worder, expired, crawler, cr,
                   crawl_results, exc, scan_data, ret, navlog>>

(***************************************************************************)
(* app/tasks.py: scan_site                                                 *)
(***************************************************************************)
\* the run is over: its process-local state (the crawler, the locals, the
\* caught exception) is gone with it
Forget(j) ==
    /\ crawler' = [crawler EXCEPT ![j] = SiteCrawler(10, TRUE, TRUE)]
    /\ cr' = [cr EXCEPT ![j] = CrawlLocals]
    /\ crawl_results' = [crawl_results EXCEPT ![j] = None]
    /\ exc' = [exc EXCEPT ![j] = None]
    /\ scan_data' = [scan_data EXCEPT ![j] = Missing]
    /\ navlog' = [navlog EXCEPT ![j] = <<>>]

\* except Exception as e: the outer handler starts with str(e) = msg
Raise(j, msg) ==
    /\ pc' = [pc EXCEPT ![j] = "handler_get"]
    /\ exc' = [exc EXCEPT ![j] = Some(msg)]

\* self.update_state(state="PROGRESS", meta={"current": 0, ...})
ReportStart(j) ==
    /\ pc[j] = "report_start"
    /\ \/ /\ pc' = [pc EXCEPT ![j] = "store_processing"]
          /\ UNCHANGED exc
       \/ Raise(j, "progress_error")
    /\ UNCHANGED <<req, scan, crawler_data, worder, expired, crawler, cr,
                   crawl_results, scan_data, ret, navlog>>

\* scan_result = ScanResult(..., status=PROCESSING, ...); setex scan:<id>
StoreProcessing(j) ==
    /\ pc[j] = "store_processing"
    /\ \/ /\ scan' = [scan EXCEPT ![j] = ScanResult(j, "processing")]
          /\ worder' = Written(worder, scan_key(j))
          /\ expired' = expired \ {scan_key(j)}
          /\ pc' = [pc EXCEPT ![j] = "init_crawler"]
          /\ UNCHANGED exc
       \/ /\ Raise(j, "store_error")
          /\ UNCHANGED <<scan, worder, expired>>
    /\ UNCHANGED <<req, crawler_data, crawler, cr, crawl_results, scan_data,
                   ret, navlog>>

\* update_state(10); crawler = SiteCrawler(...); update_state(20); the event
\* loop is created and crawl_site starts
InitCrawler(j) ==
    /\ pc[j] = "init_crawler"
    /\ \/ /\ crawler' = [crawler EXCEPT ![j] =
                 SiteCrawler(req[j].max_pages, req[j].include_screenshots,
                             req[j].include_html)]
          /\ cr' = [cr EXCEPT ![j] = CrawlLocals]
          /\ pc' = [pc EXCEPT ![j] = "seed_goto"]
          /\ UNCHANGED exc
       \/ /\ Raise(j, "progress_error")
          /\ UNCHANGED <<crawler, cr>>
    /\ UNCHANGED <<req, scan, crawler_data, worder, expired, crawl_results,
                   scan_data, ret, navlog>>

(***************************************************************************)
(* app/crawler.py: SiteCrawler                                             *)
(***************************************************************************)
\* what the crawl leaves alone: the store and the task's own variables
CrawlFrame == UNCHANGED <<req, scan, crawler_data, worder, expired, exc,
                          scan_data, ret>>

\* crawl_site's outer "except Exception as e: return {"error": str(e)}";
\* the locals of the crawl end with it
ReturnError(j, msg) ==
    /\ crawl_results' = [crawl_results EXCEPT ![j] = Some([error |-> msg])]
    /\ cr' = [cr EXCEPT ![j] = CrawlLocals]
    /\ pc' = [pc EXCEPT ![j] = "post_crawl"]

\* "error" in crawl_results
IsError(results) == "error" \in DOMAIN results

\* the last-attempt test never matching: the failure is not re-raised
seed_never_last_attempt(attempt) == FALSE

\* "if attempt == 2:  # Last attempt" in the seed page's retry loop
seed_last_attempt(attempt) == attempt = 2

\* page.goto(url) inside "for attempt in range(3)": success leaves the loop,
\* a failure on the last attempt is re-raised, an earlier one retries; a
\* loop that ends without success raises "Failed to navigate ..."
SeedGoto(j) ==
    /\ pc[j] = "seed_goto"
    /\ \E ok \in BOOLEAN :
        /\ navlog' = [navlog EXCEPT ![j] =
                          Append(@, [page |-> "page", url |-> SeedUrl, ok |-> ok])]
        /\ IF ok
           THEN /\ pc' = [pc EXCEPT ![j] = "screenshot"]
                /\ UNCHANGED <<cr, crawl_results>>
           ELSE IF seed_last_attempt(cr[j].attempt)
           THEN ReturnError(j, "nav_error")
           ELSE IF cr[j].attempt + 1 >= SEED_ATTEMPTS
           THEN ReturnError(j, "not_navigated_error")
           ELSE /\ cr' = [cr EXCEPT ![j].attempt = @ + 1]
                /\ UNCHANGED <<pc, crawl_results>>
    /\ UNCHANGED crawler
    /\ CrawlFrame

\* f"screenshots/{datetime.now().strftime('%Y%m%d_%H%M%S')}.png"
screenshot_name(second) == <<"screenshots", second>>

\* if self.include_screenshots: the path is set, then page.screenshot runs
\* outside any try of its own
Screenshot(j) ==
    /\ pc[j] = "screenshot"
    /\ IF crawler[j].include_screenshots
       THEN \E second \in 1..MaxSecond :
            /\ crawler' = [crawler EXCEPT ![j].screenshot_path =
                               Some(screenshot_name(second))]
            /\ \/ /\ pc' = [pc EXCEPT ![j] = "seed_html"]
                  /\ UNCHANGED <<cr, crawl_results>>
               \/ ReturnError(j, "screenshot_error")
       ELSE /\ pc' = [pc EXCEPT ![j] = "seed_html"]
            /\ UNCHANGED <<crawler, cr, crawl_results>>
    /\ UNCHANGED navlog
    /\ CrawlFrame

\* if self.include_html: page.content() in its own try/except
SeedHtml(j) ==
    /\ pc[j] = "seed_html"
    /\ IF crawler[j].include_html
       THEN \/ crawler' = [crawler EXCEPT ![j].html_content = @ \cup {SeedUrl}]
            \/ UNCHANGED crawler
       ELSE UNCHANGED crawler
    /\ pc' = [pc EXCEPT ![j] = "seed_links"]
    /\ UNCHANGED <<cr, crawl_results, navlog>>
    /\ CrawlFrame

\* a categorisation that also files every link as external
Categorize_all_external(c, links) ==
    [c EXCEPT
       !.all_links = @ \cup links,
       !.internal_links = @ \cup
           {l \in links : registered_domain(l) = registered_domain(SeedUrl)},
       !.external_links = @ \cup links]

\* self.all_links.update(links) and the categorisation loop that follows
\* it, in crawl_site and in _crawl_internal_pages
Categorize(c, links) ==
    [c EXCEPT
       !.all_links = @ \cup links,
       !.internal_links = @ \cup
           {l \in links : registered_domain(l) = registered_domain(SeedUrl)},
       !.external_links = @ \cup
           {l \in links : registered_domain(l) # registered_domain(SeedUrl)}]

\* links = await self._extract_links(page, url), not in a try of its own;
\* then the categorisation
SeedLinks(j) ==
    /\ pc[j] = "seed_links"
    /\ \/ \E links \in SUBSET Links :
            /\ crawler' = [crawler EXCEPT ![j] = Categorize(@, links)]
            /\ pc' = [pc EXCEPT ![j] = "select_pages"]
            /\ UNCHANGED <<cr, crawl_results>>
       \/ /\ ReturnError(j, "links_error")
          /\ UNCHANGED crawler
    /\ UNCHANGED navlog
    /\ CrawlFrame

\* list(a_set): the elements in some order
Orderings(S) ==
    {s \in [1..Cardinality(S) -> S] : \A a, b \in DOMAIN s : s[a] = s[b] => a = b}

\* the list taken whole, not sliced
SlicePrefix_whole(s, n) == s

\* Python's s[:n]: the first n elements, or all but the last -n when n < 0
SlicePrefix(s, n) ==
    SubSeq(s, 1, IF n >= 0 THEN Min(n, Len(s)) ELSE Max(Len(s) + n, 0))

\* pages_to_crawl = list(self.internal_links)[:self.max_pages - 1]
SelectPages(j) ==
    /\ pc[j] = "select_pages"
    /\ \E order \in Orderings(crawler[j].internal_links) :
        cr' = [cr EXCEPT ![j].pages_to_crawl =
                   SlicePrefix(order, crawler[j].max_pages - 1),
                         ![j].idx = 1]
    /\ pc' = [pc EXCEPT ![j] = "loop"]
    /\ UNCHANGED <<crawler, crawl_results, navlog>>
    /\ CrawlFrame

\* the loop taking an internal link found since the selection, if any
CurrentLink_rescheduled(j) ==
    LET selected == {cr[j].pages_to_crawl[i] : i \in DOMAIN cr[j].pages_to_crawl}
        found == crawler[j].internal_links \ selected
    IN  IF found = {} THEN cr[j].pages_to_crawl[cr[j].idx]
        ELSE CHOOSE l \in found : TRUE

\* the link the loop of _crawl_internal_pages is at
CurrentLink(j) == cr[j].pages_to_crawl[cr[j].idx]

\* for link in pages_to_crawl: the cap check, then browser.new_page()
Loop(j) ==
    /\ pc[j] = "loop"
    /\ IF cr[j].idx > Len(cr[j].pages_to_crawl)
       THEN /\ pc' = [pc EXCEPT ![j] = "compile"]
            /\ UNCHANGED cr
       ELSE IF Cardinality(crawler[j].crawled_urls) >= crawler[j].max_pages
       THEN /\ pc' = [pc EXCEPT ![j] = "compile"]
            /\ UNCHANGED cr
       ELSE \/ /\ cr' = [cr EXCEPT ![j].open_pages = @ \cup {CurrentLink(j)},
                                   ![j].attempt = 0]
               /\ pc' = [pc EXCEPT ![j] = "page_goto"]
            \/ /\ pc' = [pc EXCEPT ![j] = "compile"]
               /\ UNCHANGED cr
    /\ UNCHANGED <<crawler, crawl_results, navlog>>
    /\ CrawlFrame

\* "if attempt == 1:  # Last attempt" in an internal page's retry loop
page_last_attempt(attempt) == attempt = 1

\* the skipped page recorded as if it had been visited
page_skipped_as_visited(c, link) == [c EXCEPT !.crawled_urls = @ \cup {link}]

\* "except Exception as e: print(...)" of the per-link try: the page whose
\* navigation failed leaves no trace in the crawler
page_skipped(c, link) == c

\* new_page.goto(link) inside "for attempt in range(2)": a failure on the
\* last attempt is re-raised into the per-link "except Exception"; a loop
\* that ends without success closes the page and continues
PageGoto(j) ==
    /\ pc[j] = "page_goto"
    /\ \E ok \in BOOLEAN :
        /\ navlog' = [navlog EXCEPT ![j] =
                          Append(@, [page |-> "new_page", url |-> CurrentLink(j),
                                     ok |-> ok])]
        /\ IF ok
           THEN /\ pc' = [pc EXCEPT ![j] = "page_visit"]
                /\ UNCHANGED <<cr, crawler>>
           ELSE IF page_last_attempt(cr[j].attempt)
                   \/ cr[j].attempt + 1 >= PAGE_ATTEMPTS
           THEN /\ pc' = [pc EXCEPT ![j] = "page_close"]
                /\ crawler' = [crawler EXCEPT ![j] =
                                   page_skipped(@, CurrentLink(j))]
                /\ UNCHANGED cr
           ELSE /\ cr' = [cr EXCEPT ![j].attempt = @ + 1]
                /\ UNCHANGED <<pc, crawler>>
    /\ UNCHANGED crawl_results
    /\ CrawlFrame

\* after a successful goto: the content read and the link extraction, each
\* in its own try/except, then self.crawled_urls.add(link)
PageVisit(j) ==
    /\ pc[j] = "page_visit"
    /\ \E html_ok \in BOOLEAN, links_ok \in BOOLEAN, links \in SUBSET Links :
        /\ ~crawler[j].include_html => html_ok
        /\ ~links_ok => links = {}
        /\ LET link == CurrentLink(j)
               c0 == crawler[j]
               c1 == IF c0.include_html /\ html_ok
                     THEN [c0 EXCEPT !.html_content = @ \cup {link}] ELSE c0
               c2 == IF links_ok THEN Categorize(c1, links) ELSE c1
           IN  crawler' = [crawler EXCEPT ![j] =
                               [c2 EXCEPT !.crawled_urls = @ \cup {link}]]
    /\ pc' = [pc EXCEPT ![j] = "page_close"]
    /\ UNCHANGED <<cr, crawl_results, navlog>>
    /\ CrawlFrame

\* the loop moving on without the page having been closed
PageClose_skipped(j) ==
    /\ pc[j] = "page_close"
    /\ cr' = [cr EXCEPT ![j].idx = @ + 1]
    /\ pc' = [pc EXCEPT ![j] = "loop"]
    /\ UNCHANGED <<crawler, crawl_results, navlog>>
    /\ CrawlFrame

\* finally: new_page.close() is called, in its own try/except (a raising
\* close is printed and ignored); the loop moves on
PageClose(j) ==
    /\ pc[j] = "page_close"
    /\ cr' = [cr EXCEPT ![j].open_pages = @ \ {CurrentLink(j)},
                        ![j].idx = @ + 1]
    /\ pc' = [pc EXCEPT ![j] = "loop"]
    /\ UNCHANGED <<crawler, crawl_results, navlog>>
    /\ CrawlFrame

(***************************************************************************)
(* Scores, in thousandths of a point (the source computes floats).         *)
(***************************************************************************)
Abs(x) == IF x >= 0 THEN x ELSE -x

\* the content score with the page term weighted 40 and no cap
content_score_overweight(pages, internal, total) ==
    Min(pages * 100, 1000) * 40
      + Min(internal * 20, 1000) * 40
      + (IF total > 0 THEN (internal * 30000) \div total ELSE 0)

\* min(pages / 10, 1) * 30 + min(internal / 50, 1) * 40
\*   + (internal / total) * 30 when total > 0, capped at 100;
\* pages is len(self.crawled_urls)
content_score(pages, internal, total) ==
    Min(Min(pages * 100, 1000) * 30
          + Min(internal * 20, 1000) * 40
          + (IF total > 0 THEN (internal * 30000) \div total ELSE 0),
        100000)

\* min(pages / 10, 1) * 25 + min(total / 100, 1) * 25 + 50 when the internal
\* ratio is in [0.3, 0.7], else (1 - |0.5 - ratio|) * 50; capped at 100
seo_score(pages, internal, total) ==
    Min(Min(pages * 100, 1000) * 25
          + Min(total * 10, 1000) * 25
          + (IF total > 0
             THEN IF 3 * total <= 10 * internal /\ 10 * internal <= 7 * total
                  THEN 50000
                  ELSE 50000 - Abs(25000 - (internal * 50000) \div total)
             ELSE 0),
        100000)

\* min(content_score * 0.8, 100)
performance_score(pages, internal, total) ==
    Min((content_score(pages, internal, total) * 8) \div 10, 100000)

\* _compile_results, given the outcome of the two lookups
compile_results(c, domain_info, ip_info) ==
    LET pages == Cardinality(c.crawled_urls)
        internal == Cardinality(c.internal_links)
        total == Cardinality(c.all_links)
    IN  [url |-> SeedUrl,
         pages_crawled |-> Cardinality(c.crawled_urls) + 1,
         total_links |-> Cardinality(c.all_links),
         internal_links |-> Cardinality(c.internal_links),
         external_links |-> Cardinality(c.external_links),
         crawled_urls |-> c.crawled_urls,
         screenshot_path |-> c.screenshot_path,
         html_content |-> IF c.include_html THEN c.html_content ELSE {},
         domain_info |-> domain_info,
         ip_info |-> ip_info,
         content_score |-> content_score(pages, internal, total),
         seo_score |-> seo_score(pages, internal, total),
         performance_score |-> performance_score(pages, internal, total)]

\* _get_domain_info / _get_ip_info: the record, or {"error": str(e)}
LookupResult(ok) == IF ok THEN Some("record") ELSE Some("error")

\* await browser.close(), outside any try of its own, then
\* return self._compile_results(url): the browser's pages and the locals of
\* the crawl end with it
Compile(j) ==
    /\ pc[j] = "compile"
    /\ \/ /\ \E whois_ok \in BOOLEAN, ipwhois_ok \in BOOLEAN :
               crawl_results' = [crawl_results EXCEPT ![j] =
                   Some(compile_results(crawler[j], LookupResult(whois_ok),
                                        LookupResult(ipwhois_ok)))]
          /\ cr' = [cr EXCEPT ![j] = CrawlLocals]
          /\ pc' = [pc EXCEPT ![j] = "post_crawl"]
       \/ ReturnError(j, "close_error")
    /\ UNCHANGED <<crawler, navlog>>
    /\ CrawlFrame

(***************************************************************************)
(* app/tasks.py: scan_site after the crawl                                 *)
(***************************************************************************)
\* what the task's steps leave alone: the crawl's state
TaskFrame == UNCHANGED <<crawler, cr, crawl_results, navlog>>

\* the one element of a non-empty Optional
TheValue(opt) == CHOOSE v \in opt : TRUE

\* self.update_state(state="PROGRESS", meta={"current": 80, ...}): the first
\* step of the task with the crawl's result in hand
PostCrawl(j) ==
    /\ pc[j] = "post_crawl"
    /\ \/ /\ pc' = [pc EXCEPT ![j] = "store_result"]
          /\ UNCHANGED exc
       \/ Raise(j, "progress_error")
    /\ navlog' = [navlog EXCEPT ![j] = <<>>]
    /\ UNCHANGED <<req, scan, crawler_data, worder, expired, scan_data, ret,
                   crawler, cr, crawl_results>>

\* the Failed update of the crawl-error branch without the message
crawl_failed_no_message(scan_result, results) ==
    [scan_result EXCEPT !.status = "failed",
                        !.completed_at = Some("utcnow")]

\* if "error" in crawl_results: status, error_message and completed_at
crawl_failed(scan_result, results) ==
    [scan_result EXCEPT !.status = "failed",
                        !.error_message = Some(results.error),
                        !.completed_at = Some("utcnow")]

\* the update with a failed domain lookup treated as a failure of the job
crawl_completed_unless_lookup_failed(scan_result, results) ==
    IF results.domain_info = Some("error")
    THEN [scan_result EXCEPT !.status = "failed",
                             !.error_message = Some("error"),
                             !.completed_at = Some("utcnow")]
    ELSE [scan_result EXCEPT !.status = "completed",
                             !.completed_at = Some("utcnow"),
                             !.pages_crawled = results.pages_crawled,
                             !.total_links = results.total_links,
                             !.internal_links = results.internal_links,
                             !.external_links = results.external_links,
                             !.domain_info = results.domain_info,
                             !.ip_info = results.ip_info,
                             !.content_score = Some(results.content_score),
                             !.seo_score = Some(results.seo_score),
                             !.performance_score =
                                 Some(results.performance_score),
                             !.has_screenshot = (results.screenshot_path # None),
                             !.has_html_archive = (results.html_content # {})]

\* the update of scan_result with the crawl data
crawl_completed(scan_result, results) ==
    [scan_result EXCEPT !.status = "completed",
                        !.completed_at = Some("utcnow"),
                        !.pages_crawled = results.pages_crawled,
                        !.total_links = results.total_links,
                        !.internal_links = results.internal_links,
                        !.external_links = results.external_links,
                        !.domain_info = results.domain_info,
                        !.ip_info = results.ip_info,
                        !.content_score = Some(results.content_score),
                        !.seo_score = Some(results.seo_score),
                        !.performance_score = Some(results.performance_score),
                        !.has_screenshot = (results.screenshot_path # None),
                        !.has_html_archive = (results.html_content # {})]

\* the error check and the setex of the final record: Failed and return on a
\* crawl error, else Completed and on to the artifact entry
StoreResult(j) ==
    /\ pc[j] = "store_result"
    /\ LET results == TheValue(crawl_results[j])
           scan_result == ScanResult(j, "processing")
       IN  \/ /\ scan' = [scan EXCEPT ![j] =
                     IF IsError(results)
                     THEN crawl_failed(scan_result, results)
                     ELSE crawl_completed(scan_result, results)]
              /\ worder' = Written(worder, scan_key(j))
              /\ expired' = expired \ {scan_key(j)}
              /\ IF IsError(results)
                 THEN /\ pc' = [pc EXCEPT ![j] = "done"]
                      /\ ret' = [ret EXCEPT ![j] = Some("FAILED")]
                      /\ Forget(j)
                 ELSE /\ pc' = [pc EXCEPT ![j] = "store_artifacts"]
                      /\ UNCHANGED <<ret, exc, scan_data>>
                      /\ TaskFrame
           \/ /\ Raise(j, "store_error")
              /\ UNCHANGED <<scan, worder, expired, ret, scan_data>>
              /\ TaskFrame
    /\ UNCHANGED <<crawler_data, req>>

\* setex crawler_data:<id> with the screenshot path and the HTML content
StoreArtifacts(j) ==
    /\ pc[j] = "store_artifacts"
    /\ \/ /\ crawler_data' = [crawler_data EXCEPT ![j] =
                 [screenshot_path |-> TheValue(crawl_results[j]).screenshot_path,
                  html_content |-> TheValue(crawl_results[j]).html_content]]
          /\ worder' = Written(worder, crawler_key(j))
          /\ expired' = expired \ {crawler_key(j)}
          /\ pc' = [pc EXCEPT ![j] = "report_success"]
          /\ UNCHANGED exc
       \/ /\ Raise(j, "store_error")
          /\ UNCHANGED <<crawler_data, worder, expired>>
    /\ UNCHANGED <<req, scan, scan_data, ret>>
    /\ TaskFrame

\* self.update_state(state="SUCCESS", ...); return {"status": "SUCCESS", ...}
ReportSuccess(j) ==
    /\ pc[j] = "report_success"
    /\ \/ /\ pc' = [pc EXCEPT ![j] = "done"]
          /\ ret' = [ret EXCEPT ![j] = Some("SUCCESS")]
          /\ Forget(j)
       \/ /\ Raise(j, "progress_error")
          /\ UNCHANGED <<ret, scan_data>>
          /\ TaskFrame
    /\ UNCHANGED <<scan, crawler_data, worder, expired, req>>

\* except Exception as e: scan_data = redis_client.get(...); with no record
\* the handler returns FAILED without writing; a raising get leaves scan_site
HandlerGet(j) ==
    /\ pc[j] = "handler_get"
    /\ \/ /\ scan[j] # Missing
          /\ scan_data' = [scan_data EXCEPT ![j] = scan[j]]
          /\ pc' = [pc EXCEPT ![j] = "handler_set"]
          /\ UNCHANGED <<ret, exc>>
          /\ TaskFrame
       \/ /\ scan[j] = Missing
          /\ pc' = [pc EXCEPT ![j] = "done"]
          /\ ret' = [ret EXCEPT ![j] = Some("FAILED")]
          /\ Forget(j)
       \/ /\ pc' = [pc EXCEPT ![j] = "raised"]
          /\ UNCHANGED ret
          /\ Forget(j)
    /\ UNCHANGED <<scan, crawler_data, worder, expired, req>>

\* the handler's update without the completion timestamp
handler_failed_no_timestamp(scan_result, message) ==
    [scan_result EXCEPT !.status = "failed", !.error_message = message]

\* the handler's update with the status left as it was read
handler_failed_status_kept(scan_result, message) ==
    [scan_result EXCEPT !.error_message = message,
                        !.completed_at = Some("utcnow")]

\* the handler's update of the record it read
handler_failed(scan_result, message) ==
    [scan_result EXCEPT !.status = "failed",
                        !.error_message = message,
                        !.completed_at = Some("utcnow")]

\* if scan_data: the record read is rewritten as Failed with str(e)
HandlerSet(j) ==
    /\ pc[j] = "handler_set"
    /\ \/ /\ scan' = [scan EXCEPT ![j] = handler_failed(scan_data[j], exc[j])]
          /\ worder' = Written(worder, scan_key(j))
          /\ expired' = expired \ {scan_key(j)}
          /\ pc' = [pc EXCEPT ![j] = "done"]
          /\ ret' = [ret EXCEPT ![j] = Some("FAILED")]
       \/ /\ pc' = [pc EXCEPT ![j] = "raised"]
          /\ UNCHANGED <<scan, worder, expired, ret>>
    /\ Forget(j)
    /\ UNCHANGED <<crawler_data, req>>

(***************************************************************************)
(* The task layer's hard time limit and the store's expiry and deletion.   *)
(***************************************************************************)
\* task_time_limit: the worker process running the task is killed; nothing
\* of scan_site runs afterwards and the memory of the run is gone
HardTimeLimit(j) ==
    /\ pc[j] \in Running
    /\ pc' = [pc EXCEPT ![j] = "killed"]
    /\ Forget(j)
    /\ UNCHANGED <<req, scan, crawler_data, worder, expired, ret>>

\* the job a key belongs to
JobOf(k) == k[2]

\* a key's TTL runs out: every key has the same TTL, so the key written
\* longest ago goes first, and a key written by a run that is still inside
\* its time limit cannot be older than its TTL
Expire ==
    /\ worder # <<>>
    /\ LET k == Head(worder) IN
        /\ TASK_TIME_LIMIT < TTL_SECONDS => pc[JobOf(k)] \notin Running
        /\ IF k[1] = "scan"
           THEN /\ scan' = [scan EXCEPT ![JobOf(k)] = Missing]
                /\ UNCHANGED crawler_data
           ELSE /\ crawler_data' = [crawler_data EXCEPT ![JobOf(k)] = Missing]
                /\ UNCHANGED scan
        /\ expired' = expired \cup {k}
    /\ worder' = Tail(worder)
    /\ UNCHANGED <<pc, req, crawler, cr, crawl_results, exc, scan_data, ret,
                   navlog>>

\* get_scan_result: the stored record with the artifact entry attached, or
\* None
get_scan_result(j) ==
    IF scan[j] # Missing
    THEN Some([scan_result |-> scan[j], crawler_data |-> crawler_data[j]])
    ELSE None

\* what delete_scan(j) returns and leaves in the store: if
\* redis_client.exists(scan_key), both keys are deleted and the answer is
\* True; otherwise nothing is deleted and the answer is False
delete_scan_outcome(j) ==
    IF scan[j] # Missing
    THEN [ret |-> TRUE, scan |-> Missing, crawler_data |-> Missing,
          worder |-> Without(Without(worder, scan_key(j)), crawler_key(j))]
    ELSE [ret |-> FALSE, scan |-> scan[j], crawler_data |-> crawler_data[j],
          worder |-> worder]

\* delete_scan, called for an id that create_scan has handed out
delete_scan(j) ==
    /\ pc[j] \notin {"unused", "idle"}
    /\ scan' = [scan EXCEPT ![j] = delete_scan_outcome(j).scan]
    /\ crawler_data' = [crawler_data EXCEPT ![j] =
                            delete_scan_outcome(j).crawler_data]
    /\ worder' = delete_scan_outcome(j).worder
    /\ UNCHANGED <<pc, req, expired, crawler, cr, crawl_results, exc,
                   scan_data, ret, navlog>>

Next ==
    \E j \in JobIds :
        \/ create_scan(j)
        \/ ReportStart(j)
        \/ StoreProcessing(j)
        \/ InitCrawler(j)
        \/ SeedGoto(j)
        \/ Screenshot(j)
        \/ SeedHtml(j)
        \/ SeedLinks(j)
        \/ SelectPages(j)
        \/ Loop(j)
        \/ PageGoto(j)
        \/ PageVisit(j)
        \/ PageClose(j)
        \/ Compile(j)
        \/ PostCrawl(j)
        \/ StoreResult(j)
        \/ StoreArtifacts(j)
        \/ ReportSuccess(j)
        \/ HandlerGet(j)
        \/ HandlerSet(j)
        \/ HardTimeLimit(j)
        \/ delete_scan(j)
        \/ Expire

Spec == Init /\ [][Next]_vars

(***************************************************************************)
(* The scores over the link counts a crawl can end with: a crawler that is *)
(* about to compile its results, with any number of visited pages and any  *)
(* numbers of links, the internal ones among all of them.                  *)
(***************************************************************************)
\* the crawler after a crawl that visited p pages and found t links, i of
\* them internal
CrawlerWithCounts(p, i, t) ==
    [SiteCrawler(10, FALSE, FALSE) EXCEPT
        !.crawled_urls = 1..p,
        !.all_links = 1..t,
        !.internal_links = 1..i,
        !.external_links = (i + 1)..t]

InitScores ==
    /\ pc = [j \in JobIds |-> IF j = "j1" THEN "compile" ELSE "unused"]
    /\ req = [j \in JobIds |-> [max_pages |-> 10, include_screenshots |-> FALSE,
                                include_html |-> FALSE]]
    /\ scan = [j \in JobIds |-> IF j = "j1" THEN ScanResult(j, "processing")
                                            ELSE Missing]
    /\ crawler_data = [j \in JobIds |-> Missing]
    /\ worder = <<scan_key("j1")>>
    /\ expired = {}
    /\ \E p \in 0..MaxScorePages, t \in 0..MaxScoreLinks :
         \E i \in 0..t :
            crawler = [j \in JobIds |-> IF j = "j1" THEN CrawlerWithCounts(p, i, t)
                                                   ELSE SiteCrawler(10, TRUE, TRUE)]
    /\ cr = [j \in JobIds |-> CrawlLocals]
    /\ crawl_results = [j \in JobIds |-> None]
    /\ exc = [j \in JobIds |-> None]
    /\ scan_data = [j \in JobIds |-> Missing]
    /\ ret = [j \in JobIds |-> None]
    /\ navlog = [j \in JobIds |-> <<>>]

NextScores == \E j \in JobIds : Compile(j)

SpecScores == InitScores /\ [][NextScores]_vars

(***************************************************************************)
(* One crawl on its own: crawl_site from its first navigation to its       *)
(* return, for every request, with each call of the crawl returning or     *)
(* raising in its turn.                                                    *)
(***************************************************************************)
InitCrawl ==
    /\ pc = [j \in JobIds |-> IF j = "j1" THEN "seed_goto" ELSE "unused"]
    /\ req \in [JobIds -> ScanRequest]
    /\ req["j2"] = [max_pages |-> 0, include_screenshots |-> FALSE,
                    include_html |-> FALSE]
    /\ scan = [j \in JobIds |-> IF j = "j1" THEN ScanResult(j, "processing")
                                            ELSE Missing]
    /\ crawler_data = [j \in JobIds |-> Missing]
    /\ worder = <<scan_key("j1")>>
    /\ expired = {}
    /\ crawler = [j \in JobIds |->
                     SiteCrawler(req[j].max_pages, req[j].include_screenshots,
                                 req[j].include_html)]
    /\ cr = [j \in JobIds |-> CrawlLocals]
    /\ crawl_results = [j \in JobIds |-> None]
    /\ exc = [j \in JobIds |-> None]
    /\ scan_data = [j \in JobIds |-> Missing]
    /\ ret = [j \in JobIds |-> None]
    /\ navlog = [j \in JobIds |-> <<>>]

\* the steps of crawl_site
CrawlStep(j) ==
    \/ SeedGoto(j)
    \/ Screenshot(j)
    \/ SeedHtml(j)
    \/ SeedLinks(j)
    \/ SelectPages(j)
    \/ Loop(j)
    \/ PageGoto(j)
    \/ PageVisit(j)
    \/ PageClose(j)
    \/ Compile(j)

NextCrawl == \E j \in JobIds : CrawlStep(j)

\* the coroutine goes on whenever the call it awaits returns or times out
SpecCrawl ==
    InitCrawl /\ [][NextCrawl]_vars /\ \A j \in JobIds : WF_vars(CrawlStep(j))

(***************************************************************************)
(* Two jobs on two workers at the same time: both scan_site runs have      *)
(* stored their Processing record and are in crawl_site, each asked for a  *)
(* screenshot of a single page (max_pages = 1).                            *)
(***************************************************************************)
InitTwoJobs ==
    /\ pc = [j \in JobIds |-> "seed_goto"]
    /\ req = [j \in JobIds |-> [max_pages |-> 1, include_screenshots |-> TRUE,
                                include_html |-> FALSE]]
    /\ scan = [j \in JobIds |-> ScanResult(j, "processing")]
    /\ crawler_data = [j \in JobIds |-> Missing]
    /\ worder \in {<<scan_key("j1"), scan_key("j2")>>,
                    <<scan_key("j2"), scan_key("j1")>>}
    /\ expired = {}
    /\ crawler = [j \in JobIds |-> SiteCrawler(1, TRUE, FALSE)]
    /\ cr = [j \in JobIds |-> CrawlLocals]
    /\ crawl_results = [j \in JobIds |-> None]
    /\ exc = [j \in JobIds |-> None]
    /\ scan_data = [j \in JobIds |-> Missing]
    /\ ret = [j \in JobIds |-> None]
    /\ navlog = [j \in JobIds |-> <<>>]

\* the steps of a crawl_site call that crawls a single page
SinglePageStep(j) ==
    \/ SeedGoto(j)
    \/ Screenshot(j)
    \/ SeedHtml(j)
    \/ SeedLinks(j)
    \/ SelectPages(j)
    \/ Loop(j)
    \/ Compile(j)

NextTwoJobs == \E j \in JobIds : SinglePageStep(j)

SpecTwoJobs == InitTwoJobs /\ [][NextTwoJobs]_vars

(***************************************************************************)
(* Properties                                                              *)
(***************************************************************************)
Terminal == {"completed", "failed"}

\* the page.goto calls made on the seed page, in order
SeedAttempts(j) ==
    LET OnSeedPage(e) == e.page = "page" IN SelectSeq(navlog[j], OnSeedPage)

\* every attempt on the seed page has been made and has failed
SeedExhausted(j) ==
    /\ Len(SeedAttempts(j)) = SEED_ATTEMPTS
    /\ \A i \in 1..SEED_ATTEMPTS : ~SeedAttempts(j)[i].ok

\* the three scores of a stored record are all set
HasScores(record) ==
    /\ record.content_score # None
    /\ record.seo_score # None
    /\ record.performance_score # None

\* C1: no transition leaves a terminal state: once the store holds a
\* Completed or Failed record for a job, no step writes a record of another
\* status for it.
C1_TerminalIsFinal ==
    [][\A j \in JobIds :
          (scan[j].status \in Terminal /\ scan'[j] # Missing)
              => scan'[j].status = scan[j].status]_vars

\* C2: when a run of scan_site exits, the stored record of its job is Failed
\* with an error message, or Completed: it is never left Processing, and it
\* exists even if the run had persisted nothing before it failed.
C2_ExitLeavesTerminalRecord ==
    [][\A j \in JobIds :
          (pc[j] \in Running /\ pc'[j] \in Exited)
              => /\ scan'[j].status \in Terminal
                 /\ scan'[j].status = "failed" => scan'[j].error_message # None]_vars

\* C3: the Processing record of a job killed at the hard time limit does not
\* stay Processing until it expires (something sets it to Failed first).
C3_KilledProcessingIsReconciled ==
    [][\A j \in JobIds :
          (pc[j] = "killed" /\ scan[j].status = "processing")
              => scan_key(j) \notin expired']_vars

\* C4: from the moment create_scan has answered until scan_site writes
\* Processing, get_scan_result finds the job's record, and it is Pending.
C4_PendingFromSubmission ==
    \A j \in JobIds :
        pc[j] \in {"report_start", "store_processing"}
            => /\ get_scan_result(j) # None
               /\ TheValue(get_scan_result(j)).scan_result.status = "pending"

\* C5: in every stored record the completion timestamp is set if and only
\* if the status is Completed or Failed.
C5_CompletedAtIffTerminal ==
    \A j \in JobIds :
        scan[j] # Missing
            => (scan[j].completed_at # None <=> scan[j].status \in Terminal)

\* C5, witness: the outer handler has rewritten a Completed record as Failed
\* and the record carries its completion timestamp.
C5_Witness ==
    \E j \in JobIds :
        /\ scan[j].status = "failed"
        /\ HasScores(scan[j])
        /\ scan[j].completed_at # None

\* C6: in every stored record the three scores are set if and only if the
\* status is Completed; no Failed record carries scores or crawl statistics.
C6_ScoresIffCompleted ==
    \A j \in JobIds :
        scan[j] # Missing
            => /\ HasScores(scan[j]) <=> scan[j].status = "completed"
               /\ scan[j].status = "failed"
                    => /\ scan[j].content_score = None
                       /\ scan[j].seo_score = None
                       /\ scan[j].performance_score = None
                       /\ scan[j].pages_crawled = 0
                       /\ scan[j].total_links = 0

\* C7: a Completed record has pages_crawled = 1 + |crawled_urls| and
\* pages_crawled <= max_pages, whatever max_pages the job was submitted with.
C7_PagesCrawledWithinMaxPages ==
    \A j \in JobIds :
        scan[j].status = "completed"
            => /\ scan[j].pages_crawled <= req[j].max_pages
               /\ pc[j] \in {"store_artifacts", "report_success"}
                    => scan[j].pages_crawled
                         = 1 + Cardinality(crawler[j].crawled_urls)

\* C8: a failed screenshot capture is not fatal: crawl_site never returns
\* the capture's exception as its error, and no job is Failed with it.
C8_ScreenshotFailureNotFatal ==
    \A j \in JobIds :
        /\ crawl_results[j] # Some([error |-> "screenshot_error"])
        /\ scan[j].status = "failed"
             => scan[j].error_message # Some("screenshot_error")

\* C9: crawl_site returns an error only when the navigation to the seed page
\* failed on all of its attempts (stated for crawls that take no screenshot,
\* so that the capture of C8 plays no part).
C9_OnlySeedNavigationIsFatal ==
    \A j \in JobIds :
        (/\ pc[j] = "post_crawl"
         /\ ~crawler[j].include_screenshots
         /\ IsError(TheValue(crawl_results[j])))
            => SeedExhausted(j)

\* what C10 says of the crawl: at most 3 attempts on the seed page, each
\* after the first only when all earlier ones failed; when all 3 failed,
\* nothing else was fetched and crawl_site returned the navigation error
SeedRetryPolicy(j) ==
    /\ Len(SeedAttempts(j)) <= SEED_ATTEMPTS
    /\ \A i \in 1..(Len(SeedAttempts(j)) - 1) : ~SeedAttempts(j)[i].ok
    /\ SeedExhausted(j)
         => /\ Len(navlog[j]) = SEED_ATTEMPTS
            /\ crawl_results[j] = Some([error |-> "nav_error"])

\* the record of a job Failed by the navigation error, with no scores
FailedByNavigation(record) ==
    /\ record.status = "failed"
    /\ record.error_message = Some("nav_error")
    /\ ~HasScores(record)

PageAttempts(j, link) ==
    LET OnLink(e) == e.page = "new_page" /\ e.url = link
    IN  SelectSeq(navlog[j], OnLink)

\* both attempts on the internal link have been made and have failed
PageExhausted(j, link) ==
    /\ Len(PageAttempts(j, link)) = PAGE_ATTEMPTS
    /\ \A i \in 1..PAGE_ATTEMPTS : ~PageAttempts(j, link)[i].ok

\* C11: a selected sub-page whose navigation fails on both attempts is
\* skipped: the failing step changes nothing of the crawler and returns no
\* error, the page is never in crawled_urls nor counted in pages_crawled,
\* the loop moves to the next candidate, and the crawl's result is stored as
\* a Completed record with that count.
C11_FailedPageIsSkipped ==
    [][\A j \in JobIds :
          /\ \A link \in Links :
                PageExhausted(j, link)'
                    => /\ link \notin crawler'[j].crawled_urls
                       /\ (pc'[j] = "post_crawl"
                             /\ ~IsError(TheValue(crawl_results'[j])))
                            => /\ link \notin
                                    TheValue(crawl_results'[j]).crawled_urls
                               /\ TheValue(crawl_results'[j]).pages_crawled
                                    = 1 + Cardinality(crawler'[j].crawled_urls)
          /\ (pc[j] = "page_goto" /\ PageExhausted(j, CurrentLink(j))')
                => /\ pc'[j] = "page_close"
                   /\ crawler'[j] = crawler[j]
                   /\ crawl_results'[j] = None
          /\ (pc[j] = "page_close" /\ pc'[j] \notin {"page_close", "killed"})
                => /\ pc'[j] = "loop"
                   /\ cr'[j].idx = cr[j].idx + 1
          /\ (/\ pc[j] = "store_result"
              /\ ~IsError(TheValue(crawl_results[j]))
              /\ pc'[j] = "store_artifacts")
                => /\ scan'[j].status = "completed"
                   /\ scan'[j].pages_crawled
                        = TheValue(crawl_results[j]).pages_crawled]_vars

\* C11, witness: crawl_site has returned a result, not an error, from a
\* crawl in which one sub-page failed both attempts and a later candidate
\* was then fetched.
C11_Witness ==
    \E j \in JobIds, link \in Links :
        /\ pc[j] = "post_crawl"
        /\ ~IsError(TheValue(crawl_results[j]))
        /\ PageExhausted(j, link)
        /\ \E i, k \in 1..Len(navlog[j]) :
              /\ i < k
              /\ navlog[j][i].page = "new_page" /\ navlog[j][i].url = link
              /\ navlog[j][k].page = "new_page" /\ navlog[j][k].ok
        /\ link \notin TheValue(crawl_results[j]).crawled_urls

\* C12: a store failure inside scan_site leaves scan_site as an exception:
\* a run whose handler caught a store failure never ends by returning a
\* result.
C12_StoreFailurePropagates ==
    [][\A j \in JobIds :
          (exc[j] = Some("store_error") /\ pc'[j] \in Exited)
              => pc'[j] = "raised"]_vars

\* the link counts of a compiled result or of a stored record add up
CountsAddUp(r) == r.total_links = r.internal_links + r.external_links

\* C13: at every point of a crawl the internal and the external links are
\* disjoint and together are all the links found, and in every compiled
\* result and every stored record total_links = internal_links +
\* external_links.
C13_LinksArePartitioned ==
    \A j \in JobIds :
        /\ crawler[j].internal_links \cap crawler[j].external_links = {}
        /\ crawler[j].internal_links \cup crawler[j].external_links
             = crawler[j].all_links
        /\ (crawl_results[j] # None /\ ~IsError(TheValue(crawl_results[j])))
             => CountsAddUp(TheValue(crawl_results[j]))
        /\ scan[j] # Missing => CountsAddUp(scan[j])

\* C13, witness: a Completed record of a crawl that found internal and
\* external links on the seed page and on a sub-page.
C13_Witness ==
    \E j \in JobIds :
        /\ scan[j].status = "completed"
        /\ scan[j].pages_crawled >= 2
        /\ scan[j].internal_links >= 2
        /\ scan[j].external_links >= 1
        /\ CountsAddUp(scan[j])

\* C14: deletion removes both the record and the artifact entry: whatever
\* the store holds for a job id, once delete_scan has run for that id the
\* store holds neither scan:<id> nor crawler_data:<id>.
C14_DeleteRemovesBoth ==
    \A j \in JobIds :
        /\ delete_scan_outcome(j).scan = Missing
        /\ delete_scan_outcome(j).crawler_data = Missing

\* C15: a job's record and its artifact entry expire together: at no
\* instant has one of the two keys expired while the other is still present.
C15_ExpireTogether ==
    \A j \in JobIds :
        /\ ~(scan_key(j) \in expired /\ crawler_data[j] # Missing)
        /\ ~(crawler_key(j) \in expired /\ scan[j] # Missing)

\* a score, in thousandths of a point, lies in [0, 100]
InRange(score) == 0 <= score /\ score <= 100000

\* C16: each of the content, SEO and performance scores of a compiled
\* result lies in [0, 100], and a crawl with no visited page and no link
\* scores 0, 0 and 0.
C16_ScoresInRange ==
    \A j \in JobIds :
        (crawl_results[j] # None /\ ~IsError(TheValue(crawl_results[j])))
            => LET r == TheValue(crawl_results[j]) IN
                /\ InRange(r.content_score)
                /\ InRange(r.seo_score)
                /\ InRange(r.performance_score)
                /\ (r.pages_crawled = 1 /\ r.internal_links = 0
                      /\ r.total_links = 0)
                     => /\ r.content_score = 0
                        /\ r.seo_score = 0
                        /\ r.performance_score = 0

\* C16, witness: results compiled with every term of the content score
\* saturated (10 pages, 50 links, all internal): the score is 100.
C16_Witness ==
    \E j \in JobIds :
        /\ crawl_results[j] # None
        /\ ~IsError(TheValue(crawl_results[j]))
        /\ TheValue(crawl_results[j]).pages_crawled > 10
        /\ TheValue(crawl_results[j]).internal_links >= 50
        /\ TheValue(crawl_results[j]).content_score = 100000
        /\ TheValue(crawl_results[j]).performance_score = 80000

C18_CompletedHasNoMessage ==
    \A j \in JobIds :
        scan[j].status = "completed" => scan[j].error_message = None

\* C18, witness: a run has returned SUCCESS and its record is Completed
\* with no error message.
C18_Witness ==
    \E j \in JobIds :
        /\ pc[j] = "done"
        /\ ret[j] = Some("SUCCESS")
        /\ scan[j].status = "completed"
        /\ scan[j].error_message = None

\* the outcomes of a lookup: the record found, or the {"error": ...} payload
LookupOutcomes == {LookupResult(TRUE), LookupResult(FALSE)}

\* C19: the two lookups are isolated: each slot of a compiled result holds
\* its own lookup's record or error payload, the rest of the result is what
\* it is when both lookups succeed, and scan_site stores the result of a
\* crawl that succeeded as Completed with the two slots as compiled,
\* whichever of the lookups failed.
C19_LookupsAreIsolated ==
    [][\A j \in JobIds :
          /\ (/\ pc[j] = "compile"
              /\ pc'[j] = "post_crawl"
              /\ ~IsError(TheValue(crawl_results'[j])))
                => LET r == TheValue(crawl_results'[j]) IN
                    /\ r.domain_info \in LookupOutcomes
                    /\ r.ip_info \in LookupOutcomes
                    /\ [r EXCEPT !.domain_info = LookupResult(TRUE),
                                 !.ip_info = LookupResult(TRUE)]
                         = compile_results(crawler[j], LookupResult(TRUE),
                                           LookupResult(TRUE))
          /\ (/\ pc[j] = "store_result"
              /\ ~IsError(TheValue(crawl_results[j]))
              /\ pc'[j] = "store_artifacts")
                => /\ scan'[j].status = "completed"
                   /\ scan'[j].domain_info = TheValue(crawl_results[j]).domain_info
                   /\ scan'[j].ip_info = TheValue(crawl_results[j]).ip_info]_vars

\* C19, witness: the domain lookup failed and the IP lookup succeeded: the
\* job is Completed with the error payload in domain_info and the record
\* in ip_info.
C19_Witness ==
    \E j \in JobIds :
        /\ scan[j].status = "completed"
        /\ scan[j].domain_info = LookupResult(FALSE)
        /\ scan[j].ip_info = LookupResult(TRUE)

\* every selected sub-page has been fetched: a new_page.goto on it succeeded
AllSelectedFetched(j) ==
    \A i \in 1..Len(cr[j].pages_to_crawl) :
        \E n \in 1..Len(navlog[j]) :
            /\ navlog[j][n].page = "new_page"
            /\ navlog[j][n].url = cr[j].pages_to_crawl[i]
            /\ navlog[j][n].ok

C21_ContentScoreFromStatistics ==
    \A j \in JobIds :
        scan[j].status = "completed"
            => scan[j].content_score
                 = Some(content_score(scan[j].pages_crawled,
                                      scan[j].internal_links,
                                      scan[j].total_links))

\* C22: within one crawl no URL is fetched successfully more than once, and
\* the seed URL is never fetched again as a sub-page, so it is never a
\* member of crawled_urls.
C22_NoUrlFetchedTwice ==
    \A j \in JobIds :
        /\ \A m, n \in 1..Len(navlog[j]) :
              (navlog[j][m].ok /\ navlog[j][n].ok
                 /\ navlog[j][m].url = navlog[j][n].url) => m = n
        /\ SeedUrl \notin crawler[j].crawled_urls

\* the elements of a list
Range(s) == {s[i] : i \in DOMAIN s}

\* positions of a crawl inside the loop of _crawl_internal_pages
InLoop == {"loop", "page_goto", "page_visit", "page_close"}

\* C23: the traversal is a single-level fan-out: the candidates are chosen
\* once, among the internal links found on the seed page, and are not added
\* to afterwards; every sub-page navigation and every member of
\* crawled_urls is one of them, so a link first found on a sub-page is
\* merged into the link sets but never navigated to.
C23_SingleLevelFanOut ==
    [][\A j \in JobIds :
          /\ (pc[j] = "select_pages" /\ pc'[j] = "loop")
                => Range(cr'[j].pages_to_crawl) \subseteq crawler[j].internal_links
          /\ (pc[j] \in InLoop /\ pc'[j] \in InLoop \cup {"compile"})
                => cr'[j].pages_to_crawl = cr[j].pages_to_crawl
          /\ pc'[j] \in InLoop \cup {"compile"}
                => /\ crawler'[j].crawled_urls
                        \subseteq Range(cr'[j].pages_to_crawl)
                   /\ \A n \in 1..Len(navlog'[j]) :
                        navlog'[j][n].page = "new_page"
                            => navlog'[j][n].url \in Range(cr'[j].pages_to_crawl)
          /\ (/\ pc[j] = "compile"
              /\ pc'[j] = "post_crawl"
              /\ ~IsError(TheValue(crawl_results'[j])))
                => TheValue(crawl_results'[j]).crawled_urls
                     \subseteq Range(cr[j].pages_to_crawl)]_vars

\* C23, witness: the loop is over, every internal link of the seed page was
\* a candidate (fewer than max_pages - 1 of them), a sub-page was visited
\* and an internal link found on it is in internal_links without having
\* been navigated to.
C23_Witness ==
    \E j \in JobIds :
        /\ pc[j] = "compile"
        /\ Len(cr[j].pages_to_crawl) < crawler[j].max_pages - 1
        /\ crawler[j].crawled_urls # {}
        /\ \E l \in crawler[j].internal_links :
              /\ l \notin Range(cr[j].pages_to_crawl)
              /\ \A n \in 1..Len(navlog[j]) :
                    navlog[j][n].page = "new_page" => navlog[j][n].url # l

\* C24: sub-page visits are sequential: at most one sub-page is open at any
\* moment, it is the page of the candidate the loop is at, and when the
\* loop is about to take its next candidate (or is over) no sub-page is
\* open: the page of a candidate is closed, whether its visit succeeded or
\* failed, before the next one is opened.
C24_OneSubPageAtATime ==
    \A j \in JobIds :
        /\ Cardinality(cr[j].open_pages) <= 1
        /\ pc[j] \in {"page_goto", "page_visit", "page_close"}
             => cr[j].open_pages = {CurrentLink(j)}
        /\ pc[j] \notin {"page_goto", "page_visit", "page_close"}
             => cr[j].open_pages = {}

\* C24, witness: the loop is at its third candidate or past the last one,
\* after a visit that failed both attempts and a visit that succeeded, and
\* no sub-page is open.
C24_Witness ==
    \E j \in JobIds :
        /\ pc[j] = "loop"
        /\ cr[j].idx >= 3
        /\ cr[j].open_pages = {}
        /\ \E l \in Links : PageExhausted(j, l)
        /\ crawler[j].crawled_urls # {}

\* the candidates a crawl has navigated to
NavigatedCandidates(j) ==
    {navlog[j][n].url : n \in {m \in 1..Len(navlog[j]) :
                                    navlog[j][m].page = "new_page"}}

\* positions of a crawl_site call that has not returned
InCrawl ==
    {"seed_goto", "screenshot", "seed_html", "seed_links", "select_pages",
     "loop", "page_goto", "page_visit", "page_close", "compile"}

\* C25: every crawl terminates when each of its calls returns or times out:
\* it makes at most 3 navigation attempts on the seed page and at most 2 on
\* each of at most max(0, max_pages - 1) candidates, a candidate's page is
\* opened only after the visited-count cap was checked, and crawl_site
\* returns.
C25_CrawlTerminates ==
    /\ [](\A j \in JobIds :
            /\ Len(SeedAttempts(j)) <= SEED_ATTEMPTS
            /\ \A l \in Links : Len(PageAttempts(j, l)) <= PAGE_ATTEMPTS
            /\ Cardinality(NavigatedCandidates(j))
                 <= Max(0, crawler[j].max_pages - 1)
            /\ pc[j] \in {"page_goto", "page_visit", "page_close"}
                 => Cardinality(crawler[j].crawled_urls \ {CurrentLink(j)})
                      < crawler[j].max_pages)
    /\ \A j \in JobIds : (pc[j] \in InCrawl) ~> (pc[j] = "post_crawl")

\* C25, witness: crawl_site has returned after 3 navigation attempts on the
\* seed page and 2 on each of 2 candidates.
C25_Witness ==
    \E j \in JobIds :
        /\ pc[j] = "post_crawl"
        /\ Len(SeedAttempts(j)) = SEED_ATTEMPTS
        /\ Cardinality(NavigatedCandidates(j)) = 2
        /\ \A l \in NavigatedCandidates(j) :
              Len(PageAttempts(j, l)) = PAGE_ATTEMPTS

\* C26: a query that finds a Completed record with has_html_archive true
\* finds the artifact entry of the job with it, unless the entry has
\* expired (a deletion removes the record as well).
C26_ArtifactPresentWhenCompleted ==
    \A j \in JobIds :
        (/\ get_scan_result(j) # None
         /\ TheValue(get_scan_result(j)).scan_result.status = "completed"
         /\ TheValue(get_scan_result(j)).scan_result.has_html_archive
         /\ crawler_key(j) \notin expired)
            => TheValue(get_scan_result(j)).crawler_data # Missing

\* C27: two distinct jobs never hold the same screenshot reference: the
\* screenshot paths their crawlers write to differ, and so do the paths in
\* the results their crawls return (the ones scan_site stores in the
\* artifact entries).
C27_ScreenshotPathsDistinct ==
    \A j, k \in JobIds :
        j # k
            => /\ crawler[j].screenshot_path # None
                    => crawler[j].screenshot_path # crawler[k].screenshot_path
               /\ (/\ crawl_results[j] # None
                   /\ crawl_results[k] # None
                   /\ ~IsError(TheValue(crawl_results[j]))
                   /\ ~IsError(TheValue(crawl_results[k]))
                   /\ TheValue(crawl_results[j]).screenshot_path # None)
                    => TheValue(crawl_results[j]).screenshot_path
                         # TheValue(crawl_results[k]).screenshot_path

\* positions of a scan_site run that has written its Processing record and
\* has not failed: while a run is at one of them, its record can only be
\* absent from the store because delete_scan deleted it (and returned True)
AfterFirstWrite ==
    {"init_crawler", "seed_goto", "screenshot", "seed_html", "seed_links",
     "select_pages", "loop", "page_goto", "page_visit", "page_close",
     "compile", "post_crawl", "store_result", "store_artifacts",
     "report_success"}

\* C28: once delete_scan has deleted a job's keys, no record and no
\* artifact entry of that job is in the store again, even when the job's
\* scan_site run is still under way.
C28_DeletedStaysDeleted ==
    [][\A j \in JobIds :
          (/\ pc[j] \in AfterFirstWrite
           /\ scan[j] = Missing
           /\ scan_key(j) \notin expired)
              => /\ scan'[j] = Missing
                 /\ crawler_data'[j] = Missing]_vars
====
